---- MODULE Spec2Model ----
(***************************************************************************)
(* LabTA backend: the sandbox investigation pipeline (backend/sandbox.py), *)
(* the priority analyzer (backend/agent.py) and the session handlers of    *)
(* the HTTP application (backend/app.py).                                   *)
(*                                                                         *)
(* Encoding of Python values:                                              *)
(*   - stdout / expected output: a sequence of one-character strings;      *)
(*   - stderr, fixed messages, log lines: a sequence of word tokens,       *)
(*     `tok in text` is token membership;                                  *)
(*   - evidence: a tagged record, Str(words) | Dict(e, a, d) | NoneV;      *)
(*   - a driver result: Raw(ret, out, err) | Pre(status, err);             *)
(*   - a dict: a function from its keys, so a missing key is a missing     *)
(*     element of DOMAIN.                                                  *)
(***************************************************************************)
EXTENDS Integers, Sequences, FiniteSets, TLC

VARIABLES
    inv,            \* one direct call of run_investigation: inputs and result
    SESSIONS,       \* app.SESSIONS: session key -> reference of a dict
    heap,           \* the dict objects, by reference
    disk,           \* data/sessions.json: the last flushed content
    ERROR_PATTERNS, \* agent.ERROR_PATTERNS, loaded at import
    resp,           \* the response of the last completed request
    last,           \* the intermediate values of the last /submit
    hist,           \* per session key: the final statuses submitted, in order
    saved,          \* per session key: the code of the most recent /save
    nreq,           \* requests started so far
    thr             \* the request each worker thread is handling, and where

appVars == <<SESSIONS, heap, disk, ERROR_PATTERNS, resp, last, hist, saved, nreq>>
vars == <<inv, SESSIONS, heap, disk, ERROR_PATTERNS, resp, last, hist, saved, nreq, thr>>

----------------------------------------------------------------------------
(* Bounds *)

MaxCases == 2       \* hidden cases of a problem
MaxRequests == 3    \* requests served in one run
MaxEntries == 3     \* entries of a pattern catalog handed to the analyzer
MaxLen == 3         \* characters of a source text handed to create_source_diff

----------------------------------------------------------------------------
(* Python values *)

Str(words) == [t |-> "str", v |-> words]
Dict(e, a, d) == [t |-> "dict", expected |-> e, actual |-> a, diff |-> d]
NoneV == [t |-> "None"]

Raw(ret, out, err) == [kind |-> "raw", ret |-> ret, status |-> "", out |-> out, err |-> err]
Pre(status, err) == [kind |-> "status", ret |-> 0, status |-> status, out |-> <<>>, err |-> err]

\* dict.get(k, default) and d[k] = v
DictGet(d, k, default) == IF k \in DOMAIN d THEN d[k] ELSE default
DictSet(d, k, v) == [x \in DOMAIN d \cup {k} |-> IF x = k THEN v ELSE d[x]]

\* `tok in text`
Contains(text, tok) == \E i \in 1..Len(text) : text[i] = tok

\* str.strip() over the alphabet of the model
Whitespace == {" ", "\n"}
RECURSIVE LStrip(_)
LStrip(s) == IF s # <<>> /\ Head(s) \in Whitespace THEN LStrip(Tail(s)) ELSE s
RECURSIVE RStrip(_)
RStrip(s) ==
    IF s # <<>> /\ s[Len(s)] \in Whitespace THEN RStrip(SubSeq(s, 1, Len(s) - 1)) ELSE s
Strip(s) == RStrip(LStrip(s))

\* str.splitlines(): the lines of s, no empty last line after a final newline
RECURSIVE SplitLines(_)
SplitLines(s) ==
    IF s = <<>> THEN <<>>
    ELSE LET nl == {i \in 1..Len(s) : s[i] = "\n"}
         IN  IF nl = {} THEN <<s>>
             ELSE LET k == CHOOSE i \in nl : \A j \in nl : i <= j
                  IN  <<SubSeq(s, 1, k - 1)>> \o SplitLines(SubSeq(s, k + 1, Len(s)))

\* str.upper() on the language names
Upper(language) ==
    CASE language = "c" -> "C"
      [] language = "cpp" -> "CPP"
      [] language = "python" -> "PYTHON"
      [] language = "java" -> "JAVA"
      [] language = "ruby" -> "RUBY"
      [] OTHER -> language

----------------------------------------------------------------------------
(* backend/sandbox.py *)

\* subprocess.run(docker ...): the container times out, or ends with a
\* return code and its two streams. killed tells whether the program was
\* killed in the container (docker then reports 128 + 9) or ended by itself;
\* the code sees the return code only.
TimedOut ==
    [timeout |-> TRUE, killed |-> FALSE, returncode |-> 0, stdout |-> <<>>, stderr |-> <<>>]
Exited(rc, out, err) ==
    [timeout |-> FALSE, killed |-> FALSE, returncode |-> rc, stdout |-> out, stderr |-> err]
Killed(out, err) ==
    [timeout |-> FALSE, killed |-> TRUE, returncode |-> 137, stdout |-> out, stderr |-> err]

\* run_in_docker that hands the streams of a crashed program on as they are.
run_in_docker_streams(proc) ==
    IF proc.timeout THEN Raw(124, <<>>, <<"TIMEOUT">>)
    ELSE IF proc.returncode \in {139, 11} THEN Raw(139, proc.stdout, proc.stderr)
    ELSE Raw(proc.returncode, proc.stdout, proc.stderr)

run_in_docker(proc) ==
    IF proc.timeout THEN Raw(124, <<>>, <<"TIMEOUT">>)
    ELSE IF proc.returncode = 137 THEN Raw(137, <<>>, <<"Memory Limit Exceeded">>)
    ELSE IF proc.returncode \in {139, 11} THEN Raw(139, <<>>, <<"Segmentation Fault">>)
    ELSE Raw(proc.returncode, proc.stdout, proc.stderr)

\* difflib.ndiff over the two line lists, as the lines it reports: the common
\* prefix and suffix match, the lines between them are removed / added.
RECURSIVE CommonPrefix(_, _)
CommonPrefix(a, b) ==
    IF a # <<>> /\ b # <<>> /\ Head(a) = Head(b)
    THEN 1 + CommonPrefix(Tail(a), Tail(b)) ELSE 0
Reverse(s) == [i \in 1..Len(s) |-> s[Len(s) + 1 - i]]
Tagged(tag, lines) == [i \in 1..Len(lines) |-> <<tag, lines[i]>>]

\* The report lines for the line lists left after the common prefix of
\* length p, q being the length of their common suffix.
DiffReport(matched, erest, arest, q) ==
    IF Len(erest) > q \/ Len(arest) > q
    THEN Tagged("MATCH", matched)
           \o Tagged("EXPECTED", SubSeq(erest, 1, Len(erest) - q))
           \o Tagged("ACTUAL", SubSeq(arest, 1, Len(arest) - q))
           \o Tagged("MATCH", SubSeq(erest, Len(erest) - q + 1, Len(erest)))
    ELSE <<<<"TEXT", <<"Hidden character mismatch.">>>>>>

DiffRest(matched, erest, arest) ==
    DiffReport(matched, erest, arest, CommonPrefix(Reverse(erest), Reverse(arest)))

DiffLines(expected_lines, actual_lines, p) ==
    DiffRest(SubSeq(expected_lines, 1, p),
             SubSeq(expected_lines, p + 1, Len(expected_lines)),
             SubSeq(actual_lines, p + 1, Len(actual_lines)))

ndiff(expected_lines, actual_lines) ==
    DiffLines(expected_lines, actual_lines, CommonPrefix(expected_lines, actual_lines))

generate_diff(expected, actual) ==
    ndiff(SplitLines(Strip(expected)), SplitLines(Strip(actual)))

\* The pre-classification of each driver, on what run_in_docker returned
classify_c(r) ==
    IF Contains(r.err, "error:") /\ (Contains(r.err, "gcc") \/ Contains(r.err, "main.c"))
    THEN Pre("COMPILATION_ERROR", r.err) ELSE r

classify_cpp(r) ==
    IF Contains(r.err, "error:") /\ (Contains(r.err, "g++") \/ Contains(r.err, "main.cpp"))
    THEN Pre("COMPILATION_ERROR", r.err) ELSE r

classify_python(r) ==
    IF Contains(r.err, "SyntaxError") \/ Contains(r.err, "IndentationError")
    THEN Pre("SYNTAX_ERROR", r.err)
    ELSE IF Contains(r.err, "TypeError") THEN Pre("TYPE_ERROR", r.err)
    ELSE r

classify_java(r) ==
    IF Contains(r.err, "error:") /\ (Contains(r.err, "javac") \/ Contains(r.err, "Main.java"))
    THEN Pre("COMPILATION_ERROR", r.err)
    ELSE IF Contains(r.err, "ClassCastException") THEN Pre("TYPE_ERROR", r.err)
    ELSE r

run_c(proc) == classify_c(run_in_docker(proc))
run_cpp(proc) == classify_cpp(run_in_docker(proc))
run_python(proc) == classify_python(run_in_docker(proc))
run_java(proc) == classify_java(run_in_docker(proc))

RUNNERS == {"c", "cpp", "python", "java"}

\* RUNNERS[language](code, case_input): proc is what the container does with
\* this code on this case's input.
Runner(language, proc) ==
    CASE language = "c" -> run_c(proc)
      [] language = "cpp" -> run_cpp(proc)
      [] language = "python" -> run_python(proc)
      [] language = "java" -> run_java(proc)

\* The log lines, as word tokens.
Phase1Line(language) == <<"Phase", "1", "Initializing", "Docker", "Sandbox", Upper(language)>>
Phase2Line(n) == <<"Phase", "2", "Loading", ToString(n), "isolated", "test", "cases">>
Phase3Line(index) == <<"Phase", "3", "Running", "Test", "Case", ToString(index)>>
MismatchLine == <<"Failure", "Logic", "Mismatch">>
PassedLine == <<"Result", "Passed", "all", "hidden", "test", "cases">>

\* What run_investigation hands back: the tuple (logs, status, evidence), or
\* the exception it raised. ran lists the cases the runner was called on.
Returned(logs, status, evidence, ran) ==
    [raised |-> "", logs |-> logs, status |-> status, evidence |-> evidence, ran |-> ran]
Raised(exc, logs) ==
    [raised |-> exc, logs |-> logs, status |-> "", evidence |-> NoneV, ran |-> <<>>]

\* Ladder without its step 5: an empty output is compared like any other.
LadderNoEmptyCheck(ret, output, err, case_expected) ==
    IF ret = 124
        THEN <<"TIME_LIMIT_EXCEEDED", Str(<<"Code took too long to execute.">>)>>
    ELSE IF ret = 137
        THEN <<"MEMORY_LIMIT_EXCEEDED", Str(<<"Process killed (OOM).">>)>>
    ELSE IF ret = 139
        THEN <<"SEGFAULT_ERROR", Str(<<"Memory Access Violation.">>)>>
    ELSE IF ret # 0
        THEN <<"RUNTIME_ERROR", Str(err)>>
    ELSE IF output # case_expected
        THEN <<"LOGIC_ERROR",
               Dict(case_expected, output, generate_diff(case_expected, output))>>
    ELSE <<"PASS", NoneV>>

\* The ADVANCED MAPPING LOGIC of one pass of the loop body, on the return
\* code and the stripped output: the status and evidence it returns with, or
\* "PASS" when it falls through to the next case.
Ladder(ret, output, err, case_expected) ==
    IF ret = 124
        THEN <<"TIME_LIMIT_EXCEEDED", Str(<<"Code took too long to execute.">>)>>
    ELSE IF ret = 137
        THEN <<"MEMORY_LIMIT_EXCEEDED", Str(<<"Process killed (OOM).">>)>>
    ELSE IF ret = 139
        THEN <<"SEGFAULT_ERROR", Str(<<"Memory Access Violation.">>)>>
    ELSE IF ret # 0
        THEN <<"RUNTIME_ERROR", Str(err)>>
    ELSE IF ret = 0 /\ output = <<>> /\ case_expected # <<>>
        THEN <<"INPUT_OUTPUT_ERROR", Str(<<"Program finished but produced no output.">>)>>
    ELSE IF output # case_expected
        THEN <<"LOGIC_ERROR",
               Dict(case_expected, output, generate_diff(case_expected, output))>>
    ELSE <<"PASS", NoneV>>

\* One pass of the body of `for index, case in enumerate(hidden_cases)` on
\* the driver's result.
CaseVerdict(result, case_expected) ==
    IF result.kind = "raw"
    THEN Ladder(result.ret, Strip(result.out), result.err, case_expected)
    ELSE IF result.status \in {"SYNTAX_ERROR", "COMPILATION_ERROR", "TYPE_ERROR"}
    THEN <<result.status, Str(result.err)>>
    ELSE Ladder(-1, Strip(result.out), result.err, case_expected)

\* The end of one pass: return with the verdict, or go on with the next case.
RECURSIVE InvestigateFrom(_, _, _, _, _, _)
\* CaseStep that does not return on a resource-limit verdict but goes on.
CaseStepNoStop(language, hidden_cases, runs, index, logs, ran, verdict) ==
    IF verdict[1] \in {"PASS", "TIME_LIMIT_EXCEEDED", "MEMORY_LIMIT_EXCEEDED"}
    THEN InvestigateFrom(language, hidden_cases, runs, index + 1, logs, ran)
    ELSE IF verdict[1] = "LOGIC_ERROR"
    THEN Returned(Append(logs, MismatchLine), verdict[1], verdict[2], ran)
    ELSE Returned(logs, verdict[1], verdict[2], ran)

CaseStep(language, hidden_cases, runs, index, logs, ran, verdict) ==
    IF verdict[1] = "PASS"
    THEN InvestigateFrom(language, hidden_cases, runs, index + 1, logs, ran)
    ELSE IF verdict[1] = "LOGIC_ERROR"
    THEN Returned(Append(logs, MismatchLine), verdict[1], verdict[2], ran)
    ELSE Returned(logs, verdict[1], verdict[2], ran)

InvestigateFrom(language, hidden_cases, runs, index, logs, ran) ==
    IF index > Len(hidden_cases)
    THEN Returned(Append(logs, PassedLine), "SUCCESS", NoneV, ran)
    ELSE CaseStep(language, hidden_cases, runs, index,
                  Append(logs, Phase3Line(index)), Append(ran, index),
                  CaseVerdict(Runner(language, runs[index]),
                              Strip(hidden_cases[index].output)))

\* runs[i] is what the container does on hidden case i.
run_investigation(language, problem_id, problems_db, runs) ==
    IF language \notin RUNNERS
    THEN Returned(<<Phase1Line(language)>>, "SYSTEM_ERROR", Str(<<"Language unsupported">>), <<>>)
    ELSE IF problem_id \notin DOMAIN problems_db
    THEN Raised("AttributeError", <<Phase1Line(language)>>)
    ELSE InvestigateFrom(language, problems_db[problem_id].hidden_cases, runs, 1,
                         <<Phase1Line(language),
                           Phase2Line(Len(problems_db[problem_id].hidden_cases))>>, <<>>)

----------------------------------------------------------------------------
(* backend/agent.py: the priority analyzer *)

\* re.IGNORECASE over the words of the logs and of the patterns
LowerTable ==
    [w \in {"Phase", "Initializing", "Docker", "Sandbox", "Loading", "Running", "Test",
            "Case", "Failure", "Logic", "Mismatch", "Result", "Passed",
            "C", "CPP", "PYTHON", "JAVA", "RUBY", "Python", "Scanf"} |->
       CASE w = "Phase" -> "phase" [] w = "Initializing" -> "initializing"
         [] w = "Docker" -> "docker" [] w = "Sandbox" -> "sandbox"
         [] w = "Loading" -> "loading" [] w = "Running" -> "running"
         [] w = "Test" -> "test" [] w = "Case" -> "case"
         [] w = "Failure" -> "failure" [] w = "Logic" -> "logic"
         [] w = "Mismatch" -> "mismatch" [] w = "Result" -> "result"
         [] w = "Passed" -> "passed" [] w = "C" -> "c" [] w = "CPP" -> "cpp"
         [] w = "PYTHON" -> "python" [] w = "JAVA" -> "java" [] w = "RUBY" -> "ruby"
         [] w = "Python" -> "python" [] w = "Scanf" -> "scanf"]
Lower(w) == IF w \in DOMAIN LowerTable THEN LowerTable[w] ELSE w

\* re.search(pattern, "\n".join(logs), re.IGNORECASE): the pattern is one
\* word, found when some word of some line is that word, case folded.
Search(pattern, logs) ==
    \E i \in 1..Len(logs) : \E k \in 1..Len(logs[i]) : Lower(logs[i][k]) = Lower(pattern)

\* MinByPriority that takes the last entry of the least priority.
MinByPriorityLast(detected_errors) ==
    LET k == CHOOSE i \in 1..Len(detected_errors) :
                 /\ \A j \in 1..Len(detected_errors) :
                        detected_errors[i].priority <= detected_errors[j].priority
                 /\ \A j \in (i + 1)..Len(detected_errors) :
                        detected_errors[j].priority > detected_errors[i].priority
    IN  detected_errors[k]

\* min(detected_errors, key=priority): the first of the least priority
MinByPriority(detected_errors) ==
    LET k == CHOOSE i \in 1..Len(detected_errors) :
                 /\ \A j \in 1..Len(detected_errors) :
                        detected_errors[i].priority <= detected_errors[j].priority
                 /\ \A j \in 1..(i - 1) :
                        detected_errors[j].priority > detected_errors[i].priority
    IN  detected_errors[k]

analyze_error_logs(logs, patterns) ==
    IF logs = <<>> THEN <<"SUCCESS", "No errors found.">>
    ELSE LET Matches(err) == Search(err.pattern, logs)
             detected_errors == SelectSeq(patterns, Matches)
         IN  IF detected_errors = <<>> THEN <<"SUCCESS", "No errors found.">>
             ELSE LET best_match == MinByPriority(detected_errors)
                  IN  <<best_match.type, best_match.hint>>

\* create_source_diff: difflib.unified_diff(user_lines, fixed_lines, n=1)
\* without its two header lines, as one hunk: the hunk header, one line of
\* context on each side where there is one, the lines removed and the lines
\* added. p and q are the lengths of the common prefix and of the common
\* suffix of what follows it.
HunkBody(user_lines, fixed_lines, p, q) ==
    <<<<"@@", <<>>>>>>
      \o Tagged(" ", SubSeq(user_lines, IF p = 0 THEN 1 ELSE p, p))
      \o Tagged("-", SubSeq(user_lines, p + 1, Len(user_lines) - q))
      \o Tagged("+", SubSeq(fixed_lines, p + 1, Len(fixed_lines) - q))
      \o Tagged(" ", SubSeq(user_lines, Len(user_lines) - q + 1,
                            IF q = 0 THEN 0 ELSE Len(user_lines) - q + 1))

Hunk(user_lines, fixed_lines, p) ==
    HunkBody(user_lines, fixed_lines, p,
             CommonPrefix(Reverse(SubSeq(user_lines, p + 1, Len(user_lines))),
                          Reverse(SubSeq(fixed_lines, p + 1, Len(fixed_lines)))))

unified_diff(user_lines, fixed_lines) ==
    IF user_lines = fixed_lines THEN <<>>
    ELSE <<<<"---", <<>>>>, <<"+++", <<>>>>>>
            \o Hunk(user_lines, fixed_lines, CommonPrefix(user_lines, fixed_lines))

DiffBody(diff_list) ==
    IF Len(diff_list) > 2 THEN Str(SubSeq(diff_list, 3, Len(diff_list))) ELSE NoneV

\* create_source_diff that compares the texts as given, without strip().
create_source_diff_unstripped(user_code, fixed_code) ==
    DiffBody(unified_diff(SplitLines(user_code), SplitLines(fixed_code)))

create_source_diff(user_code, fixed_code) ==
    DiffBody(unified_diff(SplitLines(Strip(user_code)), SplitLines(Strip(fixed_code))))

\* max_retries = 3
max_retries == 3

\* What one requests.post can end in: an exception of the transport, or a
\* response with a status code and, on 200, a body. The body is malformed
\* (no candidates in it) or holds the reply text; span tells what
\* re.search(r'\{.*\}') and json.loads find in the text: no braces ("none"),
\* braces that do not parse ("invalid"), or an object ("valid"), data.
TransportError == [kind |-> "exception", status_code |-> 0, body |-> <<>>]
HttpError(status_code) == [kind |-> "http", status_code |-> status_code, body |-> <<>>]
Malformed == [kind |-> "http", status_code |-> 200, body |-> <<>>]
Reply(text, span, data) ==
    [kind |-> "http", status_code |-> 200,
     body |-> <<[text |-> text, span |-> span, data |-> data]>>]

\* `if fixed_code_str:`
Truthy(v) == v.t = "str" /\ v.v # <<>>

\* call_llm, lines 122-134: the pair returned on a reply text
ParseReply(raw_text, expect_json) ==
    IF expect_json /\ raw_text.span = "valid"
    THEN <<DictGet(raw_text.data, "hint", "Check your logic."),
           DictGet(raw_text.data, "fixed_code", NoneV)>>
    ELSE <<raw_text.text, NoneV>>

\* LlmPass that takes every response that is not 200 for a rate limit.
LlmPassRetryAll(res, expect_json) ==
    IF res.kind = "exception"
    THEN [go |-> "return", text |-> "AI Connection Error.", fixed_code |-> NoneV]
    ELSE IF res.status_code # 200
    THEN [go |-> "continue", text |-> "", fixed_code |-> NoneV]
    ELSE IF res.body = <<>>
    THEN [go |-> "return", text |-> "AI Connection Error.", fixed_code |-> NoneV]
    ELSE [go |-> "return", text |-> res.body[1].text, fixed_code |-> NoneV]

\* One pass of `for attempt in range(max_retries)` on the outcome res of its
\* request: go on with the next pass after the sleep, or return a pair.
Continue == [go |-> "continue", text |-> "", fixed_code |-> NoneV]
Return(pair) == [go |-> "return", text |-> pair[1], fixed_code |-> pair[2]]
LlmPass(res, expect_json) ==
    IF res.kind = "exception" THEN Return(<<"AI Connection Error.", NoneV>>)
    ELSE IF res.status_code = 429 THEN Continue
    ELSE IF res.status_code # 200
    THEN Return(<<"AI Error: " \o ToString(res.status_code), NoneV>>)
    ELSE IF res.body = <<>> THEN Return(<<"AI Connection Error.", NoneV>>)
    ELSE Return(ParseReply(res.body[1], expect_json))

\* call_llm, its result and what it did on the way: the requests sent and
\* the seconds slept after each rate-limit response. replies[k] is what the
\* k-th request ends in.
LlmResult(text, fixed_code, requests, sleeps) ==
    [text |-> text, fixed_code |-> fixed_code, requests |-> requests, sleeps |-> sleeps]

RECURSIVE LlmLoop(_, _, _, _)
LlmNextPass(replies, expect_json, attempt, sleeps, pass) ==
    IF pass.go = "continue"
    THEN LlmLoop(replies, expect_json, attempt + 1, Append(sleeps, 2))
    ELSE LlmResult(pass.text, pass.fixed_code, attempt + 1, sleeps)

LlmLoop(replies, expect_json, attempt, sleeps) ==
    IF attempt >= max_retries
    THEN LlmResult("AI Quota Exceeded.", NoneV, attempt, sleeps)
    ELSE LlmNextPass(replies, expect_json, attempt, sleeps,
                     LlmPass(replies[attempt + 1], expect_json))

call_llm(api_key, replies, expect_json) ==
    IF api_key = "" \/ api_key = "dummy"
    THEN LlmResult("Set API Key in .env for AI.", NoneV, 0, <<>>)
    ELSE LlmLoop(replies, expect_json, 0, <<>>)

\* generate_hint: the disclosure level is in the prompt; of what the oracle
\* is asked, only expect_json changes what comes back to the caller.
HintResult(code, llm) ==
    [hint |-> llm.text,
     citation |-> "General Concept",
     patch |-> IF Truthy(llm.fixed_code) THEN create_source_diff(code, llm.fixed_code.v)
               ELSE NoneV]

\* generate_hint that asks for the structured reply at every attempt.
generate_hint_json(code, attempt, oracle) ==
    HintResult(code, call_llm(oracle.api_key, oracle.replies, TRUE))

generate_hint(code, attempt, oracle) ==
    HintResult(code, call_llm(oracle.api_key, oracle.replies, ~(attempt <= 1 \/ attempt = 2)))

----------------------------------------------------------------------------
(* backend/diagnostics.py *)

\* No word of the modelled stderr has the shape file:line:col: or
\* File "...", line N, so no regular expression of the parser matches and
\* each language takes its fallback: Python keeps the defaults of
\* parse_python_error, the others the first line of stderr.
get_first_error(stderr_output, language) ==
    IF stderr_output = <<>> THEN [line |-> "?", msg |-> "Unknown Error"]
    ELSE IF language = "python" THEN [line |-> "?", msg |-> "Runtime Error"]
    ELSE [line |-> "?", msg |-> stderr_output[1]]

----------------------------------------------------------------------------
(* backend/app.py *)

PyNone == "<None>"      \* None, where the other values are strings

\* f"{user_id}_{problem_id}"
SessionKey(user_id, problem_id) == user_id \o "_" \o problem_id

\* {"last_error": None, "attempt": 0}
NewSession == [last_error |-> PyNone, attempt |-> 0]

OverrideLine(detected_type) ==
    <<"Agent", "Override", "Logic", "Error", "masked", "by", "Critical", "Warning", detected_type>>

\* Decide that lets the analyzer override any coarse status.
DecideAnyStatus(language, res, detected) ==
    LET override == detected[1] # "SUCCESS"
        final_status == IF override THEN detected[1] ELSE res.status
    IN  [raw_status |-> res.status, evidence |-> res.evidence, raw_logs |-> res.logs,
         detected_type |-> detected[1], detected_hint |-> detected[2],
         final_status |-> final_status,
         clean_evidence |-> IF override THEN Str(<<detected[2]>>) ELSE res.evidence,
         logs |-> IF override THEN Append(res.logs, OverrideLine(detected[1])) ELSE res.logs]

\* submit_code, step 2 and the cleaning of the evidence, on the result res
\* of the investigation and the pair detected of the analyzer.
Decide(language, res, detected) ==
    LET override == detected[1] # "SUCCESS" /\ res.status = "LOGIC_ERROR"
        final_status == IF override THEN detected[1] ELSE res.status
    IN  [raw_status |-> res.status, evidence |-> res.evidence, raw_logs |-> res.logs,
         detected_type |-> detected[1], detected_hint |-> detected[2],
         final_status |-> final_status,
         clean_evidence |->
            IF final_status \in {"SYNTAX_ERROR", "RUNTIME_ERROR"} /\ res.evidence.t = "str"
            THEN Str(<<"Line", get_first_error(res.evidence.v, language).line,
                       get_first_error(res.evidence.v, language).msg>>)
            ELSE IF override THEN Str(<<detected[2]>>) ELSE res.evidence,
         logs |-> IF override THEN Append(res.logs, OverrideLine(detected[1])) ELSE res.logs]

Analyzed(language, res, patterns) ==
    Decide(language, res, analyze_error_logs(res.logs, patterns))

\* submit_code, steps 1 and 2: the investigation, the priority analysis and
\* the cleaning of the evidence.
Classify(language, problem_id, problems_db, runs, patterns) ==
    Analyzed(language, run_investigation(language, problem_id, problems_db, runs), patterns)

\* UpdateSession that counts every failure on, whatever the one before was.
UpdateSessionNoReset(user_state, final_status) ==
    LET attempt == IF final_status = "SUCCESS" THEN 0 ELSE user_state.attempt + 1
    IN  DictSet(DictSet(user_state, "attempt", attempt), "last_error", final_status)

\* UpdateSession that leaves last_error alone on a success.
UpdateSessionKeepError(user_state, final_status) ==
    IF final_status = "SUCCESS" THEN DictSet(user_state, "attempt", 0)
    ELSE DictSet(DictSet(user_state, "attempt",
                         IF user_state.last_error = final_status
                         THEN user_state.attempt + 1 ELSE 1),
                 "last_error", final_status)

\* UpdateSession that compares with last_error before it looks for a success.
UpdateSessionEqualFirst(user_state, final_status) ==
    LET attempt ==
            IF user_state.last_error = final_status THEN user_state.attempt + 1
            ELSE IF final_status = "SUCCESS" THEN 0
            ELSE 1
    IN  DictSet(DictSet(user_state, "attempt", attempt), "last_error", final_status)

\* UpdateSession that builds the dict anew from its two fields.
UpdateSessionFresh(user_state, final_status) ==
    [last_error |-> final_status,
     attempt |-> IF final_status = "SUCCESS" THEN 0
                 ELSE IF user_state.last_error = final_status THEN user_state.attempt + 1
                 ELSE 1]

\* submit_code, step 3: the dict after the session update
UpdateSession(user_state, final_status) ==
    LET attempt ==
            IF final_status = "SUCCESS" THEN 0
            ELSE IF user_state.last_error = final_status THEN user_state.attempt + 1
            ELSE 1
    IN  DictSet(DictSet(user_state, "attempt", attempt), "last_error", final_status)

SessionMessage(user_state, final_status) ==
    IF final_status = "SUCCESS" THEN <<"Great Job!">>
    ELSE IF user_state.last_error = final_status
    THEN <<"Issue Persists:", ToString(user_state.attempt + 1), final_status>>
    ELSE <<"New Challenge:", final_status>>

----------------------------------------------------------------------------
(* The inputs of the model *)

Languages == RUNNERS \cup {"ruby"}      \* "ruby" has no driver

\* The problem catalog holds problem "c"; "b_c" is in no catalog.
CatalogId == "c"
ProblemIds == {"c", "b_c"}

\* Hidden cases: one expecting "x" (stored with a trailing newline), one
\* expecting nothing but blanks.
CasePool ==
    { [input |-> "in1", output |-> <<"x", "\n">>],
      [input |-> "in2", output |-> <<" ">>] }

CaseLists == UNION { [1..n -> CasePool] : n \in 0..MaxCases }

Catalog(hidden_cases) == (CatalogId :> [hidden_cases |-> hidden_cases])

\* What a container can do with a submission on one case.
ProcOutcomes ==
    { TimedOut,
      Exited(0, <<"x">>, <<>>),
      Exited(0, <<"x", "\n">>, <<"warning:", "main.c">>),
      Exited(0, <<>>, <<>>),
      Exited(0, <<"\n">>, <<>>),
      Exited(0, <<"y">>, <<>>),
      Exited(0, <<"x", "\n", "y">>, <<>>),
      Exited(0, <<"x">>, <<"TypeError">>),
      Exited(1, <<"x">>, <<"Traceback", "ValueError">>),
      Exited(1, <<>>, <<"main.c", "error:">>),
      Exited(1, <<>>, <<"main.cpp", "error:">>),
      Exited(1, <<>>, <<"Main.java", "error:">>),
      Exited(1, <<>>, <<"Exception", "ClassCastException">>),
      Exited(1, <<>>, <<"SyntaxError">>),
      Exited(1, <<>>, <<"IndentationError">>),
      Exited(1, <<>>, <<"TabError">>),
      Exited(124, <<"x">>, <<>>),
      Exited(137, <<"x">>, <<"Killed">>),
      Killed(<<>>, <<"Killed">>),
      Exited(139, <<"x">>, <<"main.c", "error:">>),
      Exited(11, <<>>, <<"SyntaxError">>) }

\* app.PROBLEMS_DATA, read from data/problems.json at startup
HiddenCases ==
    << [input |-> "in1", output |-> <<"x", "\n">>],
       [input |-> "in2", output |-> <<" ">>] >>
SampleCases == << [input |-> "s1", output |-> <<"s">>] >>
PROBLEMS_DATA ==
    (CatalogId :> [title |-> "Echo", description |-> "Print x", sample_cases |-> SampleCases,
                   hidden_cases |-> HiddenCases])

Users == {"a"}
Codes == {"code1", "code2"}
AllKeys == { SessionKey(u, p) : u \in Users, p \in ProblemIds }

\* The submissions: a language, the source and what the container does with
\* it on each of the two hidden cases.
Source == <<"a", "\n", "b">>
Passes == <<Exited(0, <<"x", "\n">>, <<>>), Exited(0, <<>>, <<>>)>>
Submissions ==
    { [language |-> "python", code |-> Source, runs |-> Passes],
      [language |-> "python", code |-> Source, runs |-> <<Exited(0, <<"y">>, <<>>), TimedOut>>],
      [language |-> "c", code |-> Source, runs |-> <<Exited(0, <<"x">>, <<>>), Exited(0, <<"y">>, <<>>)>>],
      [language |-> "c", code |-> Source, runs |-> <<Exited(1, <<>>, <<"main.c", "error:">>), TimedOut>>],
      [language |-> "python", code |-> Source, runs |-> <<Exited(1, <<>>, <<"SyntaxError">>), TimedOut>>],
      [language |-> "java", code |-> Source, runs |-> <<Exited(0, <<"x">>, <<>>),
                                        Exited(1, <<>>, <<"Exception", "ValueError">>)>>],
      [language |-> "ruby", code |-> Source, runs |-> Passes] }

\* data/error_dictionary.json, as loaded into ERROR_PATTERNS: entries of
\* error classes, in catalog order.
Entry(type, priority, pattern, hint) ==
    [type |-> type, priority |-> priority, pattern |-> pattern, hint |-> hint]
PatternCatalogs ==
    { <<>>,
      << Entry("INPUT_OUTPUT_ERROR", 2, "Scanf", "check scanf"),
         Entry("LOGIC_ERROR", 3, "mismatch", "compare outputs"),
         Entry("SYNTAX_ERROR", 1, "Python", "check indentation"),
         Entry("TYPE_ERROR", 1, "python", "check types") >>,
      << Entry("RUNTIME_ERROR", 2, "python", "check input"),
         Entry("SEGFAULT_ERROR", 2, "phase", "check pointers") >> }

\* What the oracle does during one call of call_llm: the API key the process
\* was started with and what each request ends in.
FixedSource == <<"a", "\n", "c">>
SameSource == <<" ", "a", "\n", "b", "\n">>
NoData == [none |-> "none"]
Script(replies) == [api_key |-> "key", replies |-> replies]
Oracles ==
    { [api_key |-> "dummy", replies |-> <<>>],
      Script(<<Reply("plain hint", "none", NoData)>>),
      Script(<<HttpError(429),
               Reply("json patch", "valid", [hint |-> "fix it", fixed_code |-> Str(FixedSource)])>>),
      Script(<<Reply("json hint", "valid", [hint |-> "look"])>>),
      Script(<<Reply("json same", "valid", [fixed_code |-> Str(SameSource)])>>),
      Script(<<HttpError(500)>>) }

----------------------------------------------------------------------------
(* A direct call of run_investigation *)

NoResult == Returned(<<>>, "", NoneV, <<>>)

\* The calls made: on a catalogued problem with one container outcome per
\* hidden case, and on a problem id the catalog does not hold.
InvCall(l, pid, cs, r) ==
    [st |-> "call", language |-> l, problem_id |-> pid,
     problems_db |-> Catalog(cs), runs |-> r, result |-> NoResult]

IsInvCall(call) ==
    \/ \E n \in 0..MaxCases :
         \E l \in Languages, cs \in [1..n -> CasePool], r \in [1..n -> ProcOutcomes] :
            call = InvCall(l, CatalogId, cs, r)
    \/ \E l \in Languages, cs \in CaseLists : call = InvCall(l, "b_c", cs, <<>>)

\* result = run_investigation(code, language, problem_id, problems_db)
Investigate ==
    /\ inv.st = "call"
    /\ inv' = [inv EXCEPT !.st = "done",
                          !.result = run_investigation(inv.language, inv.problem_id,
                                                       inv.problems_db, inv.runs)]
    /\ UNCHANGED <<appVars, thr>>

----------------------------------------------------------------------------
(* One call of a language driver, statement by statement, and what         *)
(* run_investigation makes of its result                                    *)

\* What the container can do with the submission, for the drivers: return
\* codes, outputs and error texts with the words the drivers look for.
StderrTexts ==
    { <<>>, <<"main.c", "error:">>, <<"main.cpp", "error:">>, <<"Main.java", "error:">>,
      <<"ClassCastException">>, <<"SyntaxError">>, <<"IndentationError">>, <<"TabError">>,
      <<"TypeError">>, <<"TabError", "TypeError">>, <<"SyntaxError", "TypeError">>,
      <<"Traceback", "ValueError">> }
DriverProcs ==
    {TimedOut} \cup
    { Exited(rc, out, err) : rc \in {0, 1, 11, 124, 137, 139},
                             out \in {<<>>, <<"x", "\n">>}, err \in StderrTexts }

\* The statements of a driver that can raise
DriverSteps == {"makedirs", "chmod_dir", "write", "chmod_file", "docker"}

NoDriverResult == Pre("", <<>>)

\* The frame of a call of RUNNERS[language](code, case_input): fails is the
\* statement that raises in this call ("none": no statement does), exists
\* tells whether the directory work_dir is on disk, raising whether an
\* exception is on its way out.
DriverCall(language, proc, fails) ==
    [st |-> "makedirs", language |-> language, proc |-> proc, fails |-> fails,
     exists |-> FALSE, raising |-> FALSE, result |-> NoDriverResult, status |-> ""]

IsDriverCall(call) ==
    \E language \in RUNNERS, proc \in DriverProcs, fails \in DriverSteps \cup {"none"} :
        call = DriverCall(language, proc, fails)

DriverFrame == UNCHANGED <<appVars, thr>>

\* os.makedirs(work_dir, exist_ok=True)
drv_makedirs ==
    /\ inv.st = "makedirs"
    /\ inv' = IF inv.fails = "makedirs"
              THEN [inv EXCEPT !.st = "raised", !.raising = TRUE]
              ELSE [inv EXCEPT !.st = "chmod_dir", !.exists = TRUE]
    /\ DriverFrame

\* os.chmod(work_dir, 0o777), before the try statement
drv_chmod_dir ==
    /\ inv.st = "chmod_dir"
    /\ inv' = IF inv.fails = "chmod_dir"
              THEN [inv EXCEPT !.st = "raised", !.raising = TRUE]
              ELSE [inv EXCEPT !.st = "write"]
    /\ DriverFrame

\* try: with open(...) as f: f.write(code)
drv_write ==
    /\ inv.st = "write"
    /\ inv' = IF inv.fails = "write"
              THEN [inv EXCEPT !.st = "finally", !.raising = TRUE]
              ELSE [inv EXCEPT !.st = "chmod_file"]
    /\ DriverFrame

\* os.chmod(<source file>, 0o777)
drv_chmod_file ==
    /\ inv.st = "chmod_file"
    /\ inv' = IF inv.fails = "chmod_file"
              THEN [inv EXCEPT !.st = "finally", !.raising = TRUE]
              ELSE [inv EXCEPT !.st = "docker"]
    /\ DriverFrame

\* ret, out, err = run_in_docker(...) and the return statement it reaches;
\* subprocess.run raising anything but TimeoutExpired leaves the driver.
drv_docker ==
    /\ inv.st = "docker"
    /\ inv' = IF inv.fails = "docker"
              THEN [inv EXCEPT !.st = "finally", !.raising = TRUE]
              ELSE [inv EXCEPT !.st = "finally", !.result = Runner(inv.language, inv.proc)]
    /\ DriverFrame

\* finally: shutil.rmtree(work_dir, ignore_errors=True)
drv_finally ==
    /\ inv.st = "finally"
    /\ inv' = [inv EXCEPT !.st = IF inv.raising THEN "raised" ELSE "returned",
                          !.exists = FALSE]
    /\ DriverFrame

\* The loop body of run_investigation on the driver's result, for a case
\* that expects "x".
drv_judge ==
    /\ inv.st = "returned"
    /\ inv' = [inv EXCEPT !.st = "judged",
                          !.status = CaseVerdict(inv.result, <<"x">>)[1]]
    /\ DriverFrame

----------------------------------------------------------------------------
(* A direct call of create_source_diff *)

\* The characters of the source texts: two letters, the blank, the newline
SourceChars == {"a", "b", " ", "\n"}

DiffCall(user_code, fixed_code) ==
    [st |-> "call", user_code |-> user_code, fixed_code |-> fixed_code, result |-> NoneV]

\* patch = create_source_diff(user_code, fixed_code)
Diff ==
    /\ inv.st = "call"
    /\ inv' = [inv EXCEPT !.st = "done",
                          !.result = create_source_diff(inv.user_code, inv.fixed_code)]
    /\ UNCHANGED <<appVars, thr>>

----------------------------------------------------------------------------
(* A direct call of analyze_error_logs *)

\* The entries a catalog is made of: two of priority 1 and one of priority 2
\* whose patterns are words of the logs below, one that no log matches, one
\* for a compiler warning.
EntryPool ==
    { Entry("SYNTAX_ERROR", 1, "Python", "check indentation"),
      Entry("TYPE_ERROR", 1, "mismatch", "check types"),
      Entry("SEGFAULT_ERROR", 2, "phase", "check pointers"),
      Entry("INPUT_OUTPUT_ERROR", 2, "Scanf", "check scanf"),
      Entry("RUNTIME_ERROR", 1, "overflow", "check bounds") }

\* The logs handed to the analyzer: none, those of a passing run, those of
\* a Python mismatch, and one line of a compiler warning.
LogLists ==
    { <<>>,
      <<Phase1Line("c"), Phase2Line(0), PassedLine>>,
      <<Phase1Line("python"), Phase2Line(1), Phase3Line(1), MismatchLine>>,
      <<<<"warning:", "scanf">>>> }

AnalyzerCall(logs) == [st |-> "call", logs |-> logs, result |-> <<"", "">>]

\* detected_type, detected_hint = analyze_error_logs(logs)
Analyze ==
    /\ inv.st = "call"
    /\ inv' = [inv EXCEPT !.st = "done",
                          !.result = analyze_error_logs(inv.logs, ERROR_PATTERNS)]
    /\ UNCHANGED <<appVars, thr>>

----------------------------------------------------------------------------
(* One call of call_llm, request by request *)

\* What a request to the API can end in
Responses ==
    {TransportError, Malformed}
      \cup { HttpError(code) : code \in {429, 400, 401, 403, 404, 500, 502, 503} }
      \cup { Reply("plain hint", "none", NoData),
             Reply("broken json", "invalid", NoData),
             Reply("json patch", "valid", [hint |-> "fix it", fixed_code |-> Str(FixedSource)]),
             Reply("json hint", "valid", [hint |-> "look"]),
             Reply("json same", "valid", [fixed_code |-> Str(SameSource)]),
             Reply("json other", "valid", [note |-> "none"]) }

ApiKeys == {"", "dummy", "key"}

\* The frame of call_llm(prompt, expect_json): attempt is the loop variable,
\* seen the outcomes of the requests sent so far, sleeps the seconds slept.
LlmCall(api_key, expect_json) ==
    [st |-> "start", api_key |-> api_key, expect_json |-> expect_json, attempt |-> 0,
     seen |-> <<>>, sleeps |-> <<>>, text |-> "", fixed_code |-> NoneV]

IsLlmCall(call) ==
    \E api_key \in ApiKeys, expect_json \in BOOLEAN : call = LlmCall(api_key, expect_json)

\* `if not LLM_API_KEY or LLM_API_KEY == "dummy"`, and the entry of the loop
llm_start ==
    /\ inv.st = "start"
    /\ inv' = IF inv.api_key = "" \/ inv.api_key = "dummy"
              THEN [inv EXCEPT !.st = "done", !.text = "Set API Key in .env for AI."]
              ELSE [inv EXCEPT !.st = "post"]
    /\ UNCHANGED <<appVars, thr>>

\* The frame after one pass of the loop on the outcome res of its request
LlmAfter(res, pass) ==
    IF pass.go = "continue"
    THEN [inv EXCEPT !.st = "sleep", !.seen = Append(@, res)]
    ELSE [inv EXCEPT !.st = "done", !.seen = Append(@, res),
                     !.text = pass.text, !.fixed_code = pass.fixed_code]

\* res = requests.post(...) and the rest of the pass, up to its return or
\* to the sleep
llm_post(res) ==
    /\ inv.st = "post"
    /\ inv' = LlmAfter(res, LlmPass(res, inv.expect_json))
    /\ UNCHANGED <<appVars, thr>>

\* time.sleep(2); continue; and, when the loop is over, the last return
llm_sleep ==
    /\ inv.st = "sleep"
    /\ inv' = IF inv.attempt + 1 >= max_retries
              THEN [inv EXCEPT !.st = "done", !.attempt = @ + 1, !.sleeps = Append(@, 2),
                               !.text = "AI Quota Exceeded."]
              ELSE [inv EXCEPT !.st = "post", !.attempt = @ + 1, !.sleeps = Append(@, 2)]
    /\ UNCHANGED <<appVars, thr>>

----------------------------------------------------------------------------
(* The HTTP handlers, one request at a time *)

Sess(key) == heap[SESSIONS[key]]
Snapshot(sessions, objects) == [k \in DOMAIN sessions |-> objects[sessions[k]]]

NoSubmit == [key |-> ""]
NoResponse == [op |-> ""]
Idle == [pc |-> "idle", op |-> "", key |-> "", code |-> "", final |-> "", us |-> 0]
Threads == {1, 2}

AppInit ==
    /\ SESSIONS = <<>>
    /\ heap = <<>>
    /\ disk = <<>>
    /\ resp = NoResponse
    /\ last = NoSubmit
    /\ hist = [k \in AllKeys |-> <<>>]
    /\ saved = [k \in AllKeys |-> <<>>]
    /\ nreq = 0
    /\ thr = [t \in Threads |-> Idle]

\* GET /problems
Sanitized(data) ==
    [title |-> DictGet(data, "title", PyNone),
     description |-> DictGet(data, "description", PyNone),
     sample_cases |-> DictGet(data, "sample_cases", PyNone),
     difficulty |-> DictGet(data, "difficulty", "Unknown"),
     case_count |-> Len(DictGet(data, "hidden_cases", <<>>))]

get_problems ==
    /\ nreq < MaxRequests
    /\ nreq' = nreq + 1
    /\ resp' = [op |-> "problems", key |-> "",
                body |-> [pid \in DOMAIN PROBLEMS_DATA |-> Sanitized(PROBLEMS_DATA[pid])]]
    /\ UNCHANGED <<inv, SESSIONS, heap, disk, ERROR_PATTERNS, last, hist, saved, thr>>

\* GET /draft/{user_id}/{problem_id}
DraftResponse(user_id, problem_id) ==
    LET session_key == SessionKey(user_id, problem_id)
        user_state == IF session_key \in DOMAIN SESSIONS THEN Sess(session_key) ELSE <<>>
    IN  [op |-> "draft", key |-> session_key,
         draft_code |-> DictGet(user_state, "draft_code", PyNone),
         attempts |-> DictGet(user_state, "attempt", 0),
         last_error |-> DictGet(user_state, "last_error", PyNone)]

get_draft(user_id, problem_id) ==
    /\ nreq < MaxRequests
    /\ nreq' = nreq + 1
    /\ resp' = DraftResponse(user_id, problem_id)
    /\ UNCHANGED <<inv, SESSIONS, heap, disk, ERROR_PATTERNS, last, hist, saved, thr>>

\* POST /save
save_draft(user_id, problem_id, code) ==
    LET session_key == SessionKey(user_id, problem_id)
        known == session_key \in DOMAIN SESSIONS
        ref == IF known THEN SESSIONS[session_key] ELSE Len(heap) + 1
        user_state == DictSet(IF known THEN heap[ref] ELSE NewSession, "draft_code", code)
    IN  /\ nreq < MaxRequests
        /\ nreq' = nreq + 1
        /\ heap' = IF known THEN [heap EXCEPT ![ref] = user_state] ELSE Append(heap, user_state)
        /\ SESSIONS' = (session_key :> ref) @@ SESSIONS
        /\ disk' = Snapshot(SESSIONS', heap')
        /\ resp' = [op |-> "save", key |-> session_key, status |-> "SAVED"]
        /\ saved' = [saved EXCEPT ![session_key] = Append(@, code)]
        /\ UNCHANGED <<inv, ERROR_PATTERNS, last, hist, thr>>

\* submit_code_404 that opens the session before it looks the problem up.
submit_code_404_stored(user_id, problem_id) ==
    /\ nreq < MaxRequests
    /\ problem_id \notin DOMAIN PROBLEMS_DATA
    /\ nreq' = nreq + 1
    /\ resp' = [op |-> "submit", key |-> SessionKey(user_id, problem_id), http |-> 404]
    /\ heap' = Append(heap, NewSession)
    /\ SESSIONS' = (SessionKey(user_id, problem_id) :> Len(heap) + 1) @@ SESSIONS
    /\ disk' = Snapshot(SESSIONS', heap')
    /\ UNCHANGED <<inv, ERROR_PATTERNS, last, hist, saved, thr>>

\* POST /submit for a problem id the catalog does not hold: HTTP 404
submit_code_404(user_id, problem_id) ==
    /\ nreq < MaxRequests
    /\ problem_id \notin DOMAIN PROBLEMS_DATA
    /\ nreq' = nreq + 1
    /\ resp' = [op |-> "submit", key |-> SessionKey(user_id, problem_id), http |-> 404]
    /\ UNCHANGED <<inv, SESSIONS, heap, disk, ERROR_PATTERNS, last, hist, saved, thr>>

\* POST /submit, step 4: the hint and the patch
NoHint ==
    [hint |-> "Congratulations! You are ready for the next challenge.",
     citation |-> "", patch |-> NoneV]
AgentResult(final_status, code, attempt, oracle) ==
    IF final_status # "SUCCESS" THEN generate_hint(code, attempt, oracle) ELSE NoHint

\* "\n".join(report), the diff of the evidence as the words of one log entry
RECURSIVE DiffText(_)
DiffText(report) ==
    IF report = <<>> THEN <<>>
    ELSE <<Head(report)[1]>> \o Head(report)[2] \o DiffText(Tail(report))

\* `if final_status == "LOGIC_ERROR" and user_state["attempt"] >= 3`
Unlocked(final_status, attempt) == final_status = "LOGIC_ERROR" /\ attempt >= 3
UnlockedLine == <<"Diff", "Analysis", "Unlocked", "(Attempt", "3+):">>
UnlockedMessage == <<"Source", "Patch", "Unlocked:">>
UnlockedLogs(c, attempt) ==
    IF Unlocked(c.final_status, attempt)
    THEN <<UnlockedLine, IF c.evidence.t = "dict" THEN DiffText(c.evidence.diff) ELSE <<>>>>
    ELSE <<>>

\* The body returned by submit_code
SubmitResponse(session_key, c, prior, attempt, agent_res) ==
    [op |-> "submit", key |-> session_key, http |-> 200,
     status |-> c.final_status,
     agent_logs |-> c.logs \o UnlockedLogs(c, attempt),
     system_messages |->
        <<SessionMessage(prior, c.final_status)>>
          \o (IF Unlocked(c.final_status, attempt) THEN <<UnlockedMessage>> ELSE <<>>),
     hint |-> agent_res.hint, citation |-> agent_res.citation, patch |-> agent_res.patch]

\* POST /submit, steps 3 (session management) and 4 and the response, c
\* being what steps 1 and 2 found.
Submitted(session_key, c, code, oracle) ==
    LET known == session_key \in DOMAIN SESSIONS
        ref == IF known THEN SESSIONS[session_key] ELSE Len(heap) + 1
        prior == IF known THEN heap[ref] ELSE NewSession
        user_state == UpdateSession(prior, c.final_status)
    IN  /\ heap' = IF known THEN [heap EXCEPT ![ref] = user_state] ELSE Append(heap, user_state)
        /\ SESSIONS' = (session_key :> ref) @@ SESSIONS
        /\ disk' = Snapshot(SESSIONS', heap')
        /\ resp' = SubmitResponse(session_key, c, prior, user_state.attempt,
                                  AgentResult(c.final_status, code, user_state.attempt, oracle))
        /\ last' = [key |-> session_key, prior |-> prior, c |-> c]
        /\ hist' = [hist EXCEPT ![session_key] = Append(@, c.final_status)]

\* Steps 1 and 2 of submit_code on each submission, computed once
Classified ==
    [problem_id \in DOMAIN PROBLEMS_DATA |->
        [patterns \in PatternCatalogs |->
            [sub \in Submissions |->
                Classify(sub.language, problem_id, PROBLEMS_DATA, sub.runs, patterns)]]]

\* POST /submit
submit_code(user_id, problem_id, sub, oracle) ==
    /\ nreq < MaxRequests
    /\ problem_id \in DOMAIN PROBLEMS_DATA
    /\ nreq' = nreq + 1
    /\ Submitted(SessionKey(user_id, problem_id),
                 Classified[problem_id][ERROR_PATTERNS][sub], sub.code, oracle)
    /\ UNCHANGED <<inv, ERROR_PATTERNS, saved, thr>>

Next ==
    \/ get_problems
    \/ \E u \in Users, p \in ProblemIds : get_draft(u, p)
    \/ \E u \in Users, p \in ProblemIds, code \in Codes : save_draft(u, p, code)
    \/ \E u \in Users, p \in ProblemIds : submit_code_404(u, p)
    \/ \E u \in Users, p \in ProblemIds, sub \in Submissions, oracle \in Oracles :
            submit_code(u, p, sub, oracle)

Init == AppInit /\ ERROR_PATTERNS \in PatternCatalogs /\ inv = InvCall("c", CatalogId, <<>>, <<>>)

Spec == Init /\ [][Next]_vars

\* The same handlers serving two users, one of them with an underscore in
\* the id. user_id is any string of the request (app.py 69, 76, 104).
KeyUsers == {"a", "a_b"}
KeyKeys == { SessionKey(u, p) : u \in KeyUsers, p \in ProblemIds }

KeyInit ==
    /\ SESSIONS = <<>> /\ heap = <<>> /\ disk = <<>>
    /\ resp = NoResponse /\ last = NoSubmit
    /\ hist = [k \in KeyKeys |-> <<>>] /\ saved = [k \in KeyKeys |-> <<>>]
    /\ nreq = 0 /\ thr = [t \in Threads |-> Idle]
    /\ ERROR_PATTERNS \in PatternCatalogs
    /\ inv = InvCall("c", CatalogId, <<>>, <<>>)

KeyNext ==
    \/ \E u \in KeyUsers, p \in ProblemIds : get_draft(u, p)
    \/ \E u \in KeyUsers, p \in ProblemIds, code \in Codes : save_draft(u, p, code)
    \/ \E u \in KeyUsers, p \in ProblemIds : submit_code_404(u, p)
    \/ \E u \in KeyUsers, p \in ProblemIds, sub \in Submissions, oracle \in Oracles :
            submit_code(u, p, sub, oracle)

KeySpec == KeyInit /\ [][KeyNext]_vars

\* Direct calls of run_investigation, on every call of IsInvCall
InvInit == AppInit /\ ERROR_PATTERNS = <<>> /\ IsInvCall(inv)

InvNext == Investigate

InvSpec == InvInit /\ [][InvNext]_vars

\* Calls of the language drivers
DriverInit == AppInit /\ ERROR_PATTERNS = <<>> /\ IsDriverCall(inv)

DriverNext ==
    \/ drv_makedirs
    \/ drv_chmod_dir
    \/ drv_write
    \/ drv_chmod_file
    \/ drv_docker
    \/ drv_finally
    \/ drv_judge

DriverSpec == DriverInit /\ [][DriverNext]_vars

\* Calls of create_source_diff on every pair of texts of up to MaxLen
\* characters
DiffInit ==
    /\ SESSIONS = <<>> /\ heap = <<>> /\ disk = <<>> /\ ERROR_PATTERNS = <<>>
    /\ resp = NoResponse /\ last = NoSubmit
    /\ hist = [k \in AllKeys |-> <<>>] /\ saved = [k \in AllKeys |-> <<>>]
    /\ nreq = 0 /\ thr = [t \in Threads |-> Idle]
    /\ \E n \in 0..MaxLen, m \in 0..MaxLen :
          \E user_code \in [1..n -> SourceChars], fixed_code \in [1..m -> SourceChars] :
             inv = DiffCall(user_code, fixed_code)

DiffNext == Diff

DiffSpec == DiffInit /\ [][DiffNext]_vars

\* Calls of the priority analyzer, on every catalog of up to MaxEntries
\* entries
AnalyzerInit ==
    /\ SESSIONS = <<>> /\ heap = <<>> /\ disk = <<>>
    /\ resp = NoResponse /\ last = NoSubmit
    /\ hist = [k \in AllKeys |-> <<>>] /\ saved = [k \in AllKeys |-> <<>>]
    /\ nreq = 0 /\ thr = [t \in Threads |-> Idle]
    /\ \E n \in 0..MaxEntries : ERROR_PATTERNS \in [1..n -> EntryPool]
    /\ \E logs \in LogLists : inv = AnalyzerCall(logs)

AnalyzerNext == Analyze

AnalyzerSpec == AnalyzerInit /\ [][AnalyzerNext]_vars

\* Calls of the oracle client. Every request sent is answered or fails, and
\* every sleep ends: the call takes its next step as long as it has one.
LlmInit == AppInit /\ ERROR_PATTERNS = <<>> /\ IsLlmCall(inv)

LlmNext ==
    \/ llm_start
    \/ \E res \in Responses : llm_post(res)
    \/ llm_sleep

LlmSpec == LlmInit /\ [][LlmNext]_vars /\ WF_vars(LlmNext)

----------------------------------------------------------------------------
(* The HTTP handlers on the worker threads of the server: each thread takes *)
(* a request and runs its handler statement by statement.                   *)

Working(t, pc, op) == thr[t].pc = pc /\ thr[t].op = op
Goto(t, pc) == thr' = [thr EXCEPT ![t].pc = pc]

\* POST /save arrives
save_draft_begin(t, user_id, problem_id, code) ==
    /\ thr[t].pc = "idle"
    /\ nreq < MaxRequests
    /\ nreq' = nreq + 1
    /\ thr' = [thr EXCEPT ![t] = [pc |-> "get", op |-> "save",
                                  key |-> SessionKey(user_id, problem_id),
                                  code |-> code, final |-> "", us |-> 0]]
    /\ saved' = [saved EXCEPT ![SessionKey(user_id, problem_id)] = Append(@, code)]
    /\ UNCHANGED <<inv, SESSIONS, heap, disk, ERROR_PATTERNS, resp, last, hist>>

\* POST /submit arrives: steps 1 and 2 of submit_code
submit_code_begin(t, user_id, problem_id, final_status) ==
    /\ thr[t].pc = "idle"
    /\ nreq < MaxRequests
    /\ problem_id \in DOMAIN PROBLEMS_DATA
    /\ nreq' = nreq + 1
    /\ thr' = [thr EXCEPT ![t] = [pc |-> "get", op |-> "submit",
                                  key |-> SessionKey(user_id, problem_id),
                                  code |-> "", final |-> final_status, us |-> 0]]
    /\ hist' = [hist EXCEPT ![SessionKey(user_id, problem_id)] = Append(@, final_status)]
    /\ UNCHANGED <<inv, SESSIONS, heap, disk, ERROR_PATTERNS, resp, last, saved>>

\* user_state = SESSIONS.get(session_key, {"last_error": None, "attempt": 0})
get_user_state(t) ==
    /\ thr[t].pc = "get"
    /\ IF thr[t].key \in DOMAIN SESSIONS
       THEN /\ thr' = [thr EXCEPT ![t].pc = "update", ![t].us = SESSIONS[thr[t].key]]
            /\ heap' = heap
       ELSE /\ thr' = [thr EXCEPT ![t].pc = "update", ![t].us = Len(heap) + 1]
            /\ heap' = Append(heap, NewSession)
    /\ UNCHANGED <<inv, SESSIONS, disk, ERROR_PATTERNS, resp, last, hist, saved, nreq>>

\* user_state["draft_code"] = request.code
save_draft_update(t) ==
    /\ Working(t, "update", "save")
    /\ heap' = [heap EXCEPT ![thr[t].us] = DictSet(@, "draft_code", thr[t].code)]
    /\ Goto(t, "store")
    /\ UNCHANGED <<inv, SESSIONS, disk, ERROR_PATTERNS, resp, last, hist, saved, nreq>>

\* the attempt counter and user_state["last_error"] = final_status
submit_code_update(t) ==
    /\ Working(t, "update", "submit")
    /\ heap' = [heap EXCEPT ![thr[t].us] = UpdateSession(@, thr[t].final)]
    /\ Goto(t, "store")
    /\ UNCHANGED <<inv, SESSIONS, disk, ERROR_PATTERNS, resp, last, hist, saved, nreq>>

\* SESSIONS[session_key] = user_state
store_user_state(t) ==
    /\ thr[t].pc = "store"
    /\ SESSIONS' = (thr[t].key :> thr[t].us) @@ SESSIONS
    /\ Goto(t, "flush")
    /\ UNCHANGED <<inv, heap, disk, ERROR_PATTERNS, resp, last, hist, saved, nreq>>

\* save_sessions_to_disk(SESSIONS), and the response
flush_and_return(t) ==
    /\ thr[t].pc = "flush"
    /\ disk' = Snapshot(SESSIONS, heap)
    /\ resp' = IF thr[t].op = "save"
               THEN [op |-> "save", key |-> thr[t].key, status |-> "SAVED"]
               ELSE [op |-> "submit", key |-> thr[t].key, http |-> 200,
                     status |-> thr[t].final]
    /\ thr' = [thr EXCEPT ![t] = Idle]
    /\ UNCHANGED <<inv, SESSIONS, heap, ERROR_PATTERNS, last, hist, saved, nreq>>

\* The requests of the threaded runs: one draft, and the final statuses of
\* three submissions (a pass, a mismatch, a compilation error) under the
\* empty pattern catalog.
ConcCodes == {"code1"}
ConcSubmissions ==
    { sub \in Submissions :
        \/ sub.language = "python" /\ sub.runs[1].returncode = 0
        \/ sub.language = "c" /\ sub.runs[1].returncode = 1 }
ConcStatuses ==
    { Classify(sub.language, CatalogId, PROBLEMS_DATA, sub.runs, <<>>).final_status :
        sub \in ConcSubmissions }

ConcNext ==
    \E t \in Threads :
        \/ \E u \in Users, p \in ProblemIds, code \in ConcCodes : save_draft_begin(t, u, p, code)
        \/ \E u \in Users, p \in ProblemIds, f \in ConcStatuses : submit_code_begin(t, u, p, f)
        \/ get_user_state(t)
        \/ save_draft_update(t)
        \/ submit_code_update(t)
        \/ store_user_state(t)
        \/ flush_and_return(t)

ConcInit == AppInit /\ ERROR_PATTERNS = <<>> /\ inv = InvCall("c", CatalogId, <<>>, <<>>)

ConcSpec == ConcInit /\ [][ConcNext]_vars

----------------------------------------------------------------------------
(* Properties of run_investigation, under InvSpec *)

\* The call is done and was made on a driver language and a catalogued problem.
InvRan ==
    /\ inv.st = "done"
    /\ inv.language \in RUNNERS
    /\ inv.problem_id \in DOMAIN inv.problems_db
InvCases == inv.problems_db[inv.problem_id].hidden_cases
\* The driver's result on hidden case i and what the loop body makes of it,
\* each case taken alone.
DriverResult(i) == Runner(inv.language, inv.runs[i])
Verdict(i) == CaseVerdict(DriverResult(i), Strip(InvCases[i].output))
NonPassing == { i \in 1..Len(InvCases) : Verdict(i)[1] # "PASS" }
FirstNonPassing == CHOOSE i \in NonPassing : \A j \in NonPassing : i <= j
UpTo(n) == [i \in 1..n |-> i]

\* C8: the hidden cases run in declared order up to the first case that does
\* not pass; the status and evidence returned are those of that case, no
\* later case is run, and SUCCESS is returned exactly when every case passes
\* (also when there is no case).
C8_FirstNonPassingCaseDecides ==
    InvRan =>
        /\ inv.result.raised = ""
        /\ (inv.result.status = "SUCCESS") <=> (NonPassing = {})
        /\ IF NonPassing = {}
           THEN /\ inv.result.ran = UpTo(Len(InvCases))
                /\ inv.result.evidence = NoneV
           ELSE /\ inv.result.ran = UpTo(FirstNonPassing)
                /\ inv.result.status = Verdict(FirstNonPassing)[1]
                /\ inv.result.evidence = Verdict(FirstNonPassing)[2]

\* Two hidden cases that fail differently: only the first was run.
C8_Witness ==
    /\ InvRan
    /\ Len(InvCases) = 2
    /\ NonPassing = {1, 2}
    /\ Verdict(1)[1] # Verdict(2)[1]
    /\ inv.result.ran = <<1>>

\* The ladder of the claim on a raw triple, written from the claim: the
\* status, or "PASS".
C9_Table(ret, stdout, expected) ==
    CASE ret = 124 -> "TIME_LIMIT_EXCEEDED"
      [] ret = 137 -> "MEMORY_LIMIT_EXCEEDED"
      [] ret = 139 -> "SEGFAULT_ERROR"
      [] ret \notin {0, 124, 137, 139} -> "RUNTIME_ERROR"
      [] ret = 0 /\ Strip(stdout) = <<>> /\ Strip(expected) # <<>> -> "INPUT_OUTPUT_ERROR"
      [] ret = 0 /\ Strip(stdout) # <<>> /\ Strip(stdout) # Strip(expected) -> "LOGIC_ERROR"
      [] ret = 0 /\ Strip(stdout) = Strip(expected) -> "PASS"

C9_Case(i, r) ==
    LET t == C9_Table(r.ret, r.out, InvCases[i].output)
    IN  IF i < Len(inv.result.ran) \/ inv.result.status = "SUCCESS"
        THEN t = "PASS"
        ELSE /\ inv.result.status = t
             /\ t = "RUNTIME_ERROR" => inv.result.evidence = Str(r.err)
             /\ t = "LOGIC_ERROR" =>
                    /\ inv.result.evidence.t = "dict"
                    /\ inv.result.evidence.expected = Strip(InvCases[i].output)
                    /\ inv.result.evidence.actual = Strip(r.out)
                    /\ "diff" \in DOMAIN inv.result.evidence

\* C9: every case that was run with a raw (exit_code, stdout, stderr) driver
\* result is mapped by the ladder 124 / 137 / 139 / other non-zero / empty
\* output / mismatch / pass: the cases before the last one run pass, and the
\* last one gives the status (and the evidence) the call returns.
C9_LadderOnRawTriple ==
    InvRan =>
        \A i \in 1..Len(inv.result.ran) :
            DriverResult(i).kind = "raw" => C9_Case(i, DriverResult(i))

\* A first case that passes on output with a trailing newline, a second one
\* that exits 0 with no output where output is expected.
C9_Witness ==
    /\ InvRan
    /\ Len(inv.result.ran) = 2
    /\ DriverResult(1).kind = "raw" /\ DriverResult(1).out = <<"x", "\n">>
    /\ DriverResult(2).kind = "raw" /\ DriverResult(2).ret = 0
    /\ inv.result.status = "INPUT_OUTPUT_ERROR"

\* C10: a call with a language that has no driver, or with a problem id the
\* catalog does not hold, returns SYSTEM_ERROR with a message as evidence; it
\* does not raise and runs no case.
C10_SystemErrorOnBadCall ==
    (inv.st = "done" /\ (inv.language \notin RUNNERS
                         \/ inv.problem_id \notin DOMAIN inv.problems_db)) =>
        /\ inv.result.raised = ""
        /\ inv.result.status = "SYSTEM_ERROR"
        /\ inv.result.evidence.t = "str"
        /\ inv.result.ran = <<>>

\* The container of the case that decided the investigation
DecidingRun == inv.runs[inv.result.ran[Len(inv.result.ran)]]

\* C23: TIME_LIMIT_EXCEEDED is returned only when the host-side timeout
\* fired for the deciding case's container, and MEMORY_LIMIT_EXCEEDED only
\* when that container's program was killed; a program that ends by itself
\* with code 124 or 137 gets neither.
C23_LimitsOnlyFromHost ==
    InvRan =>
        /\ inv.result.status = "TIME_LIMIT_EXCEEDED" => DecidingRun.timeout
        /\ inv.result.status = "MEMORY_LIMIT_EXCEEDED" => DecidingRun.killed

----------------------------------------------------------------------------
(* Properties of the session keys, under KeySpec *)

\* The step is a /save or a /submit of this user for this problem
Writes(u, p) ==
    \/ \E code \in Codes : save_draft(u, p, code)
    \/ \E sub \in Submissions, oracle \in Oracles : submit_code(u, p, sub, oracle)

\* C22: a /save or /submit for one (user_id, problem_id) pair leaves what
\* GET /draft answers for every other pair unchanged, ids with an
\* underscore included.
C22_SessionsIndependent ==
    [][\A u \in KeyUsers, p \in ProblemIds, u2 \in KeyUsers, p2 \in ProblemIds :
          (<<u, p>> # <<u2, p2>> /\ Writes(u, p))
              => DraftResponse(u2, p2)' = DraftResponse(u2, p2)]_vars

----------------------------------------------------------------------------
(* Properties of the source diff, under DiffSpec *)

\* The lines of a text once the whitespace around the text is removed
TrimmedLines(code) == SplitLines(Strip(code))

DiffHeaders == {"---", "+++"}

\* C21: create_source_diff returns None exactly when the two texts have the
\* same lines once trimmed, and otherwise a diff body of at least one line
\* with neither of the two header lines of the unified diff in it.
C21_NoPatchIffSameLines ==
    inv.st = "done" =>
        /\ (inv.result = NoneV) <=>
              (TrimmedLines(inv.user_code) = TrimmedLines(inv.fixed_code))
        /\ inv.result # NoneV =>
              /\ inv.result.v # <<>>
              /\ \A i \in 1..Len(inv.result.v) : inv.result.v[i][1] \notin DiffHeaders

\* Texts that differ only by surrounding whitespace: no patch
C21_Witness ==
    /\ inv.st = "done"
    /\ inv.user_code # inv.fixed_code
    /\ TrimmedLines(inv.user_code) # <<>>
    /\ inv.result = NoneV

\* Texts with a line changed between two lines kept: a patch
C21_WitnessPatch ==
    /\ inv.st = "done"
    /\ Len(TrimmedLines(inv.user_code)) = 2
    /\ Len(TrimmedLines(inv.fixed_code)) = 2
    /\ inv.result # NoneV
    /\ Len(inv.result.v) = 4

----------------------------------------------------------------------------
(* Properties of the priority analyzer, under AnalyzerSpec *)

\* The catalog entries whose pattern is found in the logs of the call
Matched == { i \in 1..Len(ERROR_PATTERNS) : Search(ERROR_PATTERNS[i].pattern, inv.logs) }

----------------------------------------------------------------------------
(* Properties of the oracle client, under LlmSpec *)

LastSeen == inv.seen[Len(inv.seen)]
RateLimited(res) == res.kind = "http" /\ res.status_code = 429

\* What the call returns, by the outcome of its last request
C16_Result ==
    IF inv.api_key \in {"", "dummy"}
    THEN inv.seen = <<>> /\ inv.text = "Set API Key in .env for AI." /\ inv.fixed_code = NoneV
    ELSE /\ inv.seen # <<>>
         /\ LastSeen.kind = "exception" =>
                (inv.text = "AI Connection Error." /\ inv.fixed_code = NoneV)
         /\ RateLimited(LastSeen) =>
                (Len(inv.seen) = 3 /\ inv.text = "AI Quota Exceeded." /\ inv.fixed_code = NoneV)
         /\ (LastSeen.kind = "http" /\ LastSeen.status_code \notin {200, 429}) =>
                (inv.text = "AI Error: " \o ToString(LastSeen.status_code)
                 /\ inv.fixed_code = NoneV)

C20_WaitGrowsWithAttempt ==
    \A k \in 1..Len(inv.sleeps) : inv.sleeps[k] = k * 2

----------------------------------------------------------------------------
(* Properties of the language drivers, under DriverSpec *)

\* The container ended by itself with return code rc
ExitedWith(rc) == ~inv.proc.timeout /\ inv.proc.returncode = rc

\* C12: for every driver, a container that ends with return code 139 or 11
\* gives the case the status SEGFAULT_ERROR, whatever it wrote to stdout and
\* stderr.
C12_SegfaultWhateverTheStreams ==
    (inv.st = "judged" /\ (ExitedWith(139) \/ ExitedWith(11))) =>
        inv.status = "SEGFAULT_ERROR"

\* The Java driver on return code 11 with the words of a compiler error on
\* stderr and output on stdout.
C12_Witness ==
    /\ inv.st = "judged" /\ inv.language = "java" /\ ExitedWith(11)
    /\ Contains(inv.proc.stderr, "error:") /\ Contains(inv.proc.stderr, "Main.java")
    /\ inv.proc.stdout # <<>>
    /\ inv.status = "SEGFAULT_ERROR"

\* C13: when a driver has returned or raised, the directory it created is
\* no longer on disk, whichever statement raised.
C13_WorkspaceRemoved ==
    inv.st \in {"returned", "raised", "judged"} => ~inv.exists

\* The words the Python driver looks at: the stderr run_in_docker hands it
PythonStderr == run_in_docker(inv.proc).err

\* C18: the Python driver returns SYNTAX_ERROR whenever stderr holds
\* SyntaxError, IndentationError or TabError, and TYPE_ERROR when it holds
\* TypeError and none of the three.
C18_PythonPreClassification ==
    (inv.st = "returned" /\ inv.language = "python") =>
        /\ (\E tok \in {"SyntaxError", "IndentationError", "TabError"} :
                Contains(PythonStderr, tok))
             => (inv.result.kind = "status" /\ inv.result.status = "SYNTAX_ERROR")
        /\ (Contains(PythonStderr, "TypeError")
             /\ \A tok \in {"SyntaxError", "IndentationError", "TabError"} :
                    ~Contains(PythonStderr, tok))
             => (inv.result.kind = "status" /\ inv.result.status = "TYPE_ERROR")

----------------------------------------------------------------------------
(* Properties of the session handlers, one request at a time, under Spec *)

\* The length of the longest run of one status that ends the history h
RunLength(h) ==
    IF h = <<>> THEN 0
    ELSE Cardinality({ i \in 1..Len(h) : \A j \in i..Len(h) : h[j] = h[Len(h)] })
Latest(h) == h[Len(h)]
Attempt(k) == IF k \in DOMAIN SESSIONS THEN Sess(k).attempt ELSE 0

\* C1: for every session key, after any sequence of /submit and /save calls
\* made one after the other on a new session, attempt is the length of the
\* run of identical non-SUCCESS final statuses that ends at the most recent
\* submission, and 0 when that submission's final status is SUCCESS.
C1_AttemptIsRunLength ==
    \A k \in AllKeys :
        IF hist[k] = <<>> THEN Attempt(k) = 0
        ELSE /\ k \in DOMAIN SESSIONS
             /\ Sess(k).attempt = IF Latest(hist[k]) = "SUCCESS" THEN 0 ELSE RunLength(hist[k])

\* A key whose history has a status followed by two of another, neither
\* being SUCCESS: the run of the latest status is shorter than the history.
C1_Witness ==
    \E k \in AllKeys :
        /\ Len(hist[k]) = 3
        /\ hist[k][1] # hist[k][2] /\ hist[k][2] = hist[k][3] /\ hist[k][3] # "SUCCESS"
        /\ Sess(k).attempt = 2

\* C2: after a /submit that returned a body, the session stored for its key,
\* in memory and in the sessions file, has last_error equal to the status of
\* that response.
C2_LastErrorIsReturnedStatus ==
    (resp.op = "submit" /\ resp.http = 200) =>
        /\ resp.key \in DOMAIN SESSIONS
        /\ Sess(resp.key).last_error = resp.status
        /\ disk[resp.key].last_error = resp.status

\* A response whose status the priority override rewrote, after a success.
C2_Witness ==
    /\ resp.op = "submit" /\ resp.http = 200
    /\ last.c.raw_status = "LOGIC_ERROR" /\ resp.status # "LOGIC_ERROR"
    /\ "SUCCESS" \in { hist[resp.key][i] : i \in 1..Len(hist[resp.key]) }

\* The attempt counter after the last /submit, and whether its final status
\* was the last_error it found.
NewAttempt == Sess(last.key).attempt
SameOutcome == last.c.final_status = last.prior.last_error

\* C3 as claimed: attempt is incremented when the new final outcome equals
\* the prior last_error, whatever the pair (also SUCCESS after SUCCESS), and
\* is reset to 1 by any other non-success outcome.
C3_IncrementedOnEveryEqualPair ==
    last.key # "" =>
        /\ SameOutcome => NewAttempt = last.prior.attempt + 1
        /\ (~SameOutcome /\ last.c.final_status # "SUCCESS") => NewAttempt = 1

\* C3, amended: attempt is incremented iff the new final outcome is not
\* SUCCESS and equals the prior last_error; any other non-success outcome
\* resets it to 1; SUCCESS sets it to 0, also when last_error was SUCCESS.
C3_IncrementedOnEqualFailure ==
    last.key # "" =>
        /\ last.c.final_status = "SUCCESS" => NewAttempt = 0
        /\ (last.c.final_status # "SUCCESS" /\ SameOutcome) =>
                NewAttempt = last.prior.attempt + 1
        /\ (last.c.final_status # "SUCCESS" /\ ~SameOutcome) => NewAttempt = 1

\* A success submitted on a session whose last_error is SUCCESS.
C3_Witness ==
    /\ last.key # ""
    /\ last.prior.last_error = "SUCCESS"
    /\ last.c.final_status = "SUCCESS"

\* C4: GET /draft returns as draft_code the code of the most recent /save of
\* the key, null when there was none, whatever was submitted in between.
C4_DraftIsLastSave ==
    /\ \A u \in Users, p \in ProblemIds :
          DraftResponse(u, p).draft_code =
              IF saved[SessionKey(u, p)] = <<>> THEN PyNone
              ELSE Latest(saved[SessionKey(u, p)])
    /\ resp.op = "draft" =>
          resp.draft_code = IF saved[resp.key] = <<>> THEN PyNone ELSE Latest(saved[resp.key])

\* A draft read back after a failing submission on its key.
C4_Witness ==
    /\ resp.op = "draft"
    /\ resp.draft_code = "code2"
    /\ last.key = resp.key
    /\ last.c.final_status # "SUCCESS"

\* The catalog entries whose pattern is found in the logs of the last
\* investigation
Matching == { i \in 1..Len(ERROR_PATTERNS) : Search(ERROR_PATTERNS[i].pattern, last.c.raw_logs) }

\* C7: the final status of a /submit differs from the coarse status of the
\* investigation only when that is LOGIC_ERROR and a catalog pattern matches
\* the logs; then the final status is the type of a matching entry, the
\* evidence passed on is its hint and an override line ends the logs. Any
\* other coarse status is final, match or no match.
C7_OverrideOnlyOnLogicError ==
    last.key # "" =>
        /\ last.c.final_status # last.c.raw_status =>
                (last.c.raw_status = "LOGIC_ERROR" /\ Matching # {})
        /\ (last.c.raw_status = "LOGIC_ERROR" /\ Matching # {}) =>
                \E i \in Matching :
                    /\ last.c.final_status = ERROR_PATTERNS[i].type
                    /\ last.c.clean_evidence = Str(<<ERROR_PATTERNS[i].hint>>)
                    /\ last.c.logs = Append(last.c.raw_logs,
                                            OverrideLine(ERROR_PATTERNS[i].type))
        /\ last.c.raw_status # "LOGIC_ERROR" =>
                /\ last.c.final_status = last.c.raw_status
                /\ last.c.logs = last.c.raw_logs
                /\ (resp.op = "submit" /\ resp.http = 200) => resp.status = last.c.raw_status

\* A mismatch turned into the matched SYNTAX_ERROR.
C7_Witness ==
    /\ last.key # ""
    /\ last.c.raw_status = "LOGIC_ERROR"
    /\ last.c.final_status = "SYNTAX_ERROR"
    /\ resp.op = "submit" /\ resp.status = "SYNTAX_ERROR"

\* A coarse status other than LOGIC_ERROR that stays, though a pattern matches.
C7_WitnessUnchanged ==
    /\ last.key # ""
    /\ last.c.raw_status = "SUCCESS"
    /\ Matching # {}

\* The last request was a /submit that returned a body
Answered == resp.op = "submit" /\ resp.http = 200

\* C14: the patch of a /submit response is not null only if the final
\* status is not SUCCESS and the updated attempt counter of the session is
\* at least 3; at attempts 1 and 2 it is null whatever the oracle replied.
C14_PatchOnlyFromThirdAttempt ==
    Answered =>
        (resp.patch # NoneV =>
            (resp.status # "SUCCESS" /\ Sess(resp.key).attempt >= 3))

\* A second attempt on which the oracle replied a JSON object with
\* fixed_code: the reply comes back as the hint, and no patch.
C14_Witness ==
    /\ Answered
    /\ Sess(resp.key).attempt = 2
    /\ resp.hint = "json patch"
    /\ resp.patch = NoneV

\* A third attempt with a patch.
C14_WitnessPatch ==
    /\ Answered
    /\ Sess(resp.key).attempt = 3
    /\ resp.patch # NoneV

\* The hidden cases of the catalog, their inputs and the lines of their
\* expected outputs
AllHidden ==
    UNION { { PROBLEMS_DATA[pid].hidden_cases[i] :
                i \in 1..Len(PROBLEMS_DATA[pid].hidden_cases) } : pid \in DOMAIN PROBLEMS_DATA }
HiddenInputs == { case.input : case \in AllHidden }
ExpectedLines ==
    UNION { { SplitLines(Strip(case.output))[i] :
                i \in 1..Len(SplitLines(Strip(case.output))) } : case \in AllHidden }

\* A log entry shows a line of expected output (after the mark of an expected
\* or matching line of the diff), or the input of a hidden case.
ShowsExpected(line) ==
    \E i \in 1..Len(line), l \in ExpectedLines :
        /\ line[i] \in {"EXPECTED", "MATCH"}
        /\ i + Len(l) <= Len(line)
        /\ SubSeq(line, i + 1, i + Len(l)) = l
ShowsInput(line) == \E i \in 1..Len(line) : line[i] \in HiddenInputs

\* C15: no response of GET /problems, GET /draft or POST /submit holds the
\* input or the expected output of a hidden case.
C15_HiddenCasesNotExposed ==
    /\ resp.op = "problems" =>
            \A pid \in DOMAIN resp.body :
                /\ "hidden_cases" \notin DOMAIN resp.body[pid]
                /\ \A i \in 1..Len(resp.body[pid].sample_cases) :
                        resp.body[pid].sample_cases[i] \notin AllHidden
    /\ resp.op = "draft" => resp.draft_code \notin HiddenInputs
    /\ Answered =>
            /\ resp.hint \notin HiddenInputs
            /\ \A i \in 1..Len(resp.agent_logs) :
                    ~ShowsExpected(resp.agent_logs[i]) /\ ~ShowsInput(resp.agent_logs[i])

\* The string f"Line {diag['line']}: {diag['msg']}", by its shape
Normalized(evidence) ==
    evidence.t = "str" /\ Len(evidence.v) = 3 /\ evidence.v[1] = "Line"

\* C19: when the final status of a /submit is SYNTAX_ERROR, COMPILATION_ERROR,
\* RUNTIME_ERROR or TYPE_ERROR and the evidence of the investigation is a
\* string, the evidence handed to the hint generator is the normalized
\* "Line N: message" string, not the raw stderr.
C19_EvidenceNormalized ==
    (last.key # ""
     /\ last.c.final_status \in {"SYNTAX_ERROR", "COMPILATION_ERROR", "RUNTIME_ERROR", "TYPE_ERROR"}
     /\ last.c.evidence.t = "str")
        => (Normalized(last.c.clean_evidence) /\ last.c.clean_evidence # last.c.evidence)

\* The keys of the problem ids that the catalog does not hold
UnknownKeys ==
    { SessionKey(u, p) : u \in Users, p \in ProblemIds \ DOMAIN PROBLEMS_DATA }

\* C11: a /submit for a problem id that is not in the catalog is answered
\* with HTTP 404 and changes nothing else: the sessions in memory and on
\* disk stay as they are, and nothing is recorded of an investigation or of a
\* hint (the history of investigations and the last one stay as they are).
C11_UnknownProblemIs404 ==
    [][ (nreq' = nreq + 1 /\ resp'.op = "submit" /\ resp'.key \in UnknownKeys) =>
            /\ resp'.http = 404
            /\ DOMAIN resp' = {"op", "key", "http"}
            /\ UNCHANGED <<SESSIONS, heap, disk, last, hist, saved>> ]_vars

\* A 404 on a key without session, after a submission on another key was
\* investigated and stored.
C11_Witness ==
    /\ resp.op = "submit" /\ resp.http = 404
    /\ resp.key \notin DOMAIN SESSIONS
    /\ last.key # "" /\ last.key \in DOMAIN SESSIONS
    /\ disk = Snapshot(SESSIONS, heap)

----------------------------------------------------------------------------
(* Properties of the session handlers on concurrent threads, under ConcSpec *)

AllIdle == \A t \in Threads : thr[t].pc = "idle"

\* The session that the submissions of h leave when made one after the other
RECURSIVE SerialSession(_)
SerialSession(h) ==
    IF h = <<>> THEN NewSession
    ELSE UpdateSession(SerialSession(SubSeq(h, 1, Len(h) - 1)), Latest(h))
Reordered(h, perm) == [i \in 1..Len(h) |-> h[perm[i]]]

\* C5: once the concurrent /submit requests of a key have all returned, its
\* session is the one that some order of these submissions, made one after
\* the other, leaves (keys no /save was made on).
C5_SubmitsSerialized ==
    AllIdle =>
        \A k \in AllKeys :
            (hist[k] # <<>> /\ saved[k] = <<>>) =>
                /\ k \in DOMAIN SESSIONS
                /\ \E perm \in Permutations(1..Len(hist[k])) :
                      /\ Sess(k).last_error = SerialSession(Reordered(hist[k], perm)).last_error
                      /\ Sess(k).attempt = SerialSession(Reordered(hist[k], perm)).attempt

\* C6: once one /save and one /submit of a key have both returned, its
\* session holds the saved draft and the submission's last_error and attempt.
C6_SaveAndSubmitBothKept ==
    AllIdle =>
        \A k \in AllKeys :
            (Len(saved[k]) = 1 /\ Len(hist[k]) = 1) =>
                /\ k \in DOMAIN SESSIONS
                /\ DictGet(Sess(k), "draft_code", PyNone) = saved[k][1]
                /\ Sess(k).last_error = hist[k][1]
                /\ Sess(k).attempt = IF hist[k][1] = "SUCCESS" THEN 0 ELSE 1

----------------------------------------------------------------------------
(* The patch announcement, under Spec *)

\* The response announces the unlocked source patch
Announced == \E i \in 1..Len(resp.system_messages) : resp.system_messages[i] = UnlockedMessage

\* C24: a /submit response whose system_messages announce "Source Patch
\* Unlocked" carries a patch of at least one line, whatever the oracle did.
C24_AnnouncedPatchIsThere ==
    (Answered /\ Announced) => (resp.patch # NoneV /\ resp.patch.v # <<>>)

============================================================================
